---- MODULE Spec2Model ----
(***************************************************************************)
(* A model of pox5fly_oj_helper/online_judge_tester.py: the comparator     *)
(* (_compare_output), the case store (_collect_test_cases,                 *)
(* _filter_test_cases), the process runner (_run_single_process), the      *)
(* repeat controller (_execute_case_with_repeat) and the orchestrator      *)
(* (run_tests).                                                            *)
(*                                                                         *)
(* A text (a Python str) is a sequence of one-character strings; a line is *)
(* a text without a line break.  An Optional value is a sequence of length *)
(* at most one: <<>> is None, <<v>> is v.                                  *)
(***************************************************************************)
EXTENDS Integers, Sequences, FiniteSets, TLC

VARIABLES
    pc,           \* where run_tests is
    environ,      \* os.environ.get("OJ_CHILD_PROCESS") in this process
    cfg,          \* the constructor's and run_tests' arguments
    dir,          \* test_case_dir: whether it exists, its .in and its .out stems
    all_cases,    \* run_tests' all_cases
    target_cases, \* run_tests' target_cases
    idx,          \* the position in target_cases of the case in hand (1-based)
    rep,          \* the locals of _execute_case_with_repeat
    cand,         \* what the candidate of the latest attempt does, <<>> if none was spawned
    procs,        \* every child process spawned so far, in spawn order
    duration,     \* _run_single_process' duration once its timeout has fired
    run_ret,      \* what the latest _run_single_process returned, <<>> until it has
    results,      \* run_tests' results
    printed,      \* the case names _print_test_result has shown, in order
    exc,          \* the exception run_tests raised, <<>> if none
    exit_code,    \* the status this process exited with, <<>> while it runs
    sol_runs,     \* how each call of sol_func by the guard ended, in call order
    encoding,     \* the locale's encoding, which the pipes of text=True use
    attempt_log,  \* status and duration of each attempt of the case in hand
    cmp_args,     \* the arguments of the _compare_output call under check
    cmp_ret       \* its return value, <<>> until it has returned

run_vars == <<pc, environ, cfg, dir, all_cases, target_cases, idx, rep, cand,
              procs, duration, run_ret, results, printed, exc, exit_code,
              sol_runs, encoding, attempt_log>>

cmp_vars == <<cmp_args, cmp_ret>>

vars == <<pc, environ, cfg, dir, all_cases, target_cases, idx, rep, cand,
          procs, duration, run_ret, results, printed, exc, exit_code,
          sol_runs, encoding, attempt_log, cmp_args, cmp_ret>>

----------------------------------------------------------------------------
(* Status constants, lines 40-44.                                          *)

STATUS_AC == "AC"
STATUS_WA == "WA"
STATUS_TLE == "TLE"
STATUS_RE == "RE"
STATUS_MISSING == "MISSING"

----------------------------------------------------------------------------
(* Text primitives of the Python runtime that the comparator uses.         *)

\* The characters str.splitlines() breaks a line at.  Texts reach the
\* comparator after universal-newline translation, so "\n" is the only
\* line boundary among the characters of the model.
LineBreaks == {"\n"}

\* The characters str.strip() removes at both ends.
Whitespace == {" ", "\t"}

RECURSIVE SplitFrom(_, _, _, _)
SplitFrom(text, i, cur, acc) ==
    IF i > Len(text)
    THEN IF cur = <<>> THEN acc ELSE Append(acc, cur)
    ELSE IF text[i] \in LineBreaks
         THEN SplitFrom(text, i + 1, <<>>, Append(acc, cur))
         ELSE SplitFrom(text, i + 1, Append(cur, text[i]), acc)

\* str.splitlines(): the lines of a text, line breaks removed; a final line
\* break opens no further (empty) line.
SplitLines(text) == SplitFrom(text, 1, <<>>, <<>>)

RECURSIVE LStrip(_)
LStrip(line) ==
    IF line # <<>> /\ Head(line) \in Whitespace THEN LStrip(Tail(line)) ELSE line

RECURSIVE RStrip(_)
RStrip(line) ==
    IF line # <<>> /\ line[Len(line)] \in Whitespace
    THEN RStrip(SubSeq(line, 1, Len(line) - 1))
    ELSE line

\* str.strip()
Strip(line) == RStrip(LStrip(line))

RECURSIVE Join(_)
\* "\n".join(lines)
Join(lines) ==
    IF lines = <<>> THEN <<>>
    ELSE IF Len(lines) = 1 THEN lines[1]
    ELSE lines[1] \o <<"\n">> \o Join(Tail(lines))

SeqsUpTo(pool, n) == UNION {[1..k -> pool] : k \in 0..n}
TextsOf(pool, n) == {Join(ls) : ls \in SeqsUpTo(pool, n)}

----------------------------------------------------------------------------
(* _compare_output, lines 271-348.                                         *)

RECURSIVE ProcessFrom(_, _, _)
ProcessFrom(lines, i, processed) ==
    IF i > Len(lines) THEN processed
    ELSE LET stripped == Strip(lines[i])
         IN  ProcessFrom(lines, i + 1,
                 IF stripped # <<>> THEN Append(processed, stripped)
                                    ELSE processed)

\* process_lines that drops blank lines and keeps the others untrimmed
ProcessLinesNoStrip(text) == SelectSeq(SplitLines(text), LAMBDA l : Strip(l) # <<>>)

\* process_lines, lines 303-310
ProcessLines(text) == ProcessFrom(SplitLines(text), 1, <<>>)

\* a preprocessing that normalises in strict mode too
PreprocessAlwaysLenient(text, strict) == ProcessLines(text)

\* the preprocessing of lines 297-313
Preprocess(text, strict) ==
    IF strict THEN SplitLines(text) ELSE ProcessLines(text)

\* The placeholder compared against when expected has run out, line 333.
EOFMark == <<"<", "E", "O", "F", ">">>

\* The three kinds of report line: lines 329, 340 and 345.
InsufficientNote == [kind |-> "insufficient", line |-> 0, got |-> <<>>, expect |-> <<>>, count |-> 0]
DiffEntry(n, act, exp) == [kind |-> "diff", line |-> n, got |-> act, expect |-> exp, count |-> 0]
MoreNote(n) == [kind |-> "more", line |-> 0, got |-> <<>>, expect |-> <<>>, count |-> n]

\* a cap test that lets one entry too many through
WithinCapOffByOne(max_diffs, diff_count) == max_diffs = <<>> \/ diff_count <= max_diffs[1] + 1

\* max_diffs is None or diff_count <= max_diffs, line 339
WithinCap(max_diffs, diff_count) == max_diffs = <<>> \/ diff_count <= max_diffs[1]

\* the loop without the break of line 330
RECURSIVE DiffLoopNoBreak(_, _, _, _, _, _, _)
DiffLoopNoBreak(act_lines, exp_lines, max_diffs, max_len, i, msg, diff_count) ==
    IF i >= max_len THEN [lines |-> msg, diff_count |-> diff_count]
    ELSE IF i >= Len(act_lines)
         THEN DiffLoopNoBreak(act_lines, exp_lines, max_diffs, max_len, i + 1,
                              Append(msg, InsufficientNote), diff_count)
    ELSE LET line_act == act_lines[i + 1]
             line_exp == IF i < Len(exp_lines) THEN exp_lines[i + 1] ELSE EOFMark
         IN  IF line_act # line_exp
             THEN DiffLoopNoBreak(act_lines, exp_lines, max_diffs, max_len, i + 1,
                      IF WithinCap(max_diffs, diff_count + 1)
                      THEN Append(msg, DiffEntry(i + 1, line_act, line_exp))
                      ELSE msg,
                      diff_count + 1)
             ELSE DiffLoopNoBreak(act_lines, exp_lines, max_diffs, max_len, i + 1,
                                  msg, diff_count)

\* The loop of lines 326-341 from index i (0-based, as in the code) on:
\* the final [lines |-> error_msg_lines, diff_count |-> diff_count].
RECURSIVE DiffLoop(_, _, _, _, _, _, _)
DiffLoop(act_lines, exp_lines, max_diffs, max_len, i, msg, diff_count) ==
    IF i >= max_len THEN [lines |-> msg, diff_count |-> diff_count]
    ELSE IF i >= Len(act_lines)
         THEN [lines |-> Append(msg, InsufficientNote), diff_count |-> diff_count]
    ELSE LET line_act == act_lines[i + 1]
             line_exp == IF i < Len(exp_lines) THEN exp_lines[i + 1] ELSE EOFMark
         IN  IF line_act # line_exp
             THEN DiffLoop(act_lines, exp_lines, max_diffs, max_len, i + 1,
                      IF WithinCap(max_diffs, diff_count + 1)
                      THEN Append(msg, DiffEntry(i + 1, line_act, line_exp))
                      ELSE msg,
                      diff_count + 1)
             ELSE DiffLoop(act_lines, exp_lines, max_diffs, max_len, i + 1,
                           msg, diff_count)

Max(a, b) == IF a >= b THEN a ELSE b

\* Lines 321-348: the WA report, the list error_msg_lines before it is joined
\* with "\n".  Every entry is a non-empty string, so the joined report is
\* empty exactly when the list is.
DiffReport(act_lines, exp_lines, max_diffs) ==
    LET max_len == Max(Len(act_lines), Len(exp_lines))
        loop == DiffLoop(act_lines, exp_lines, max_diffs, max_len, 0, <<>>, 0)
    IN  IF max_diffs # <<>> /\ loop.diff_count > max_diffs[1]
        THEN Append(loop.lines, MoreNote(loop.diff_count - max_diffs[1]))
        ELSE loop.lines

\* _compare_output(actual_output, expected_path, strict) with
\* expected_output the text read from expected_path and self.max_diffs:
\* [status, msg].  The strict shortcut of lines 285-288 and the list
\* comparison of lines 316-317 both return AC with an empty message.
CompareOutput(actual_output, expected_output, strict, max_diffs) ==
    IF strict /\ actual_output = expected_output
    THEN [status |-> STATUS_AC, msg |-> <<>>]
    ELSE LET act_lines == Preprocess(actual_output, strict)
             exp_lines == Preprocess(expected_output, strict)
         IN  IF act_lines = exp_lines
             THEN [status |-> STATUS_AC, msg |-> <<>>]
             ELSE [status |-> STATUS_WA,
                   msg |-> DiffReport(act_lines, exp_lines, max_diffs)]

----------------------------------------------------------------------------
(* The case store: _collect_test_cases (lines 83-118) and                  *)
(* _filter_test_cases (lines 120-161).  A case is [name, has_out]: the     *)
(* stem of its .in file and whether the .out file beside it exists.        *)

DigitChars == <<"0", "1", "2", "3", "4", "5", "6", "7", "8", "9">>

\* The character U+00B2, SUPERSCRIPT TWO: a digit to str.isdigit(), but no
\* decimal digit, so that neither \d nor int() takes it.
Superscript2 == "^2"

\* the characters \d matches and int() reads
IsDecimalChar(c) == \E d \in 1..Len(DigitChars) : DigitChars[d] = c
DigitValue(c) == (CHOOSE d \in 1..Len(DigitChars) : DigitChars[d] = c) - 1

\* the characters str.isdigit() accepts
IsDigitChar(c) == IsDecimalChar(c) \/ c = Superscript2

\* str.isdigit(): not empty and digits only
IsDigit(name) == name # <<>> /\ \A i \in 1..Len(name) : IsDigitChar(name[i])

\* int(s) raises ValueError: s is empty or holds a character that is no
\* decimal digit
IntRaises(s) == s = <<>> \/ \E i \in 1..Len(s) : ~IsDecimalChar(s[i])

RECURSIVE IntOf(_)
\* int(s) of a digit string
IntOf(digits) ==
    IF digits = <<>> THEN 0
    ELSE 10 * IntOf(SubSeq(digits, 1, Len(digits) - 1)) + DigitValue(digits[Len(digits)])

\* token in case_name, for two strings
Contains(token, name) ==
    \E i \in 0..(Len(name) - Len(token)) : SubSeq(name, i + 1, i + Len(token)) = token

\* the code points of the characters case names are made of
CodePoint(c) ==
    CASE IsDecimalChar(c) -> 48 + DigitValue(c)
      [] c = "_" -> 95
      [] c = Superscript2 -> 178
      [] c = "a" -> 97
      [] c = "b" -> 98
      [] c = "c" -> 99
      [] OTHER -> 120

RECURSIVE StrLess(_, _)
\* s < t for two strings
StrLess(s, t) ==
    IF t = <<>> THEN FALSE
    ELSE IF s = <<>> THEN TRUE
    ELSE IF s[1] # t[1] THEN CodePoint(s[1]) < CodePoint(t[1])
    ELSE StrLess(Tail(s), Tail(t))

\* re.findall(r"\d+", name)[0]: the first maximal run of digits, <<>> if none
FirstDigitRun(name) ==
    IF \A i \in 1..Len(name) : ~IsDecimalChar(name[i]) THEN <<>>
    ELSE LET first == CHOOSE i \in 1..Len(name) :
                         IsDecimalChar(name[i]) /\ \A j \in 1..(i - 1) : ~IsDecimalChar(name[j])
             last == CHOOSE k \in first..Len(name) :
                         /\ \A j \in first..k : IsDecimalChar(name[j])
                         /\ (k = Len(name) \/ ~IsDecimalChar(name[k + 1]))
         IN  SubSeq(name, first, last)

\* sort_key, lines 104-115: an int or a str
sort_key(item) ==
    LET numbers == FirstDigitRun(item.name)
    IN  IF numbers # <<>>
        THEN [is_int |-> TRUE, int |-> IntOf(numbers), str |-> <<>>]
        ELSE [is_int |-> FALSE, int |-> 0, str |-> item.name]

\* k1 < k2 for two keys of one type
KeyLess(k1, k2) ==
    IF k1.is_int THEN k1.int < k2.int ELSE StrLess(k1.str, k2.str)

\* list.sort compares keys of two types as soon as the list holds both, and
\* int < str raises TypeError
SortRaises(cases) ==
    \E i, j \in 1..Len(cases) : sort_key(cases[i]).is_int # sort_key(cases[j]).is_int

RECURSIVE InsertSorted(_, _)
\* item put behind every element that is not greater: a stable insertion
InsertSorted(sorted, item) ==
    IF sorted = <<>> THEN <<item>>
    ELSE IF KeyLess(sort_key(item), sort_key(sorted[Len(sorted)]))
         THEN Append(InsertSorted(SubSeq(sorted, 1, Len(sorted) - 1), item),
                     sorted[Len(sorted)])
         ELSE Append(sorted, item)

RECURSIVE StableSort(_)
\* cases.sort(key=sort_key), line 117, when it does not raise
StableSort(cases) ==
    IF cases = <<>> THEN <<>>
    ELSE InsertSorted(StableSort(SubSeq(cases, 1, Len(cases) - 1)), cases[Len(cases)])

\* the orders test_case_dir.glob("*.in") may yield the files of a set in
GlobOrders(names) ==
    {order \in [1..Cardinality(names) -> names] :
        \A i, j \in 1..Cardinality(names) : i # j => order[i] # order[j]}

\* A filter token: an int or a str, lines 145 and 152.
IntToken(n) == [is_int |-> TRUE, int |-> n, str |-> <<>>]
StrToken(s) == [is_int |-> FALSE, int |-> 0, str |-> s]

\* line 148: the test of an int token raises ValueError when isdigit() lets
\* through a name that int() does not read
TokenRaises(token, case_name) ==
    token.is_int /\ IsDigit(case_name) /\ IntRaises(case_name)

\* lines 145-156: whether one token matches a case name, when the test
\* raises nothing
TokenMatches(token, case_name) ==
    IF token.is_int
    THEN IsDigit(case_name) /\ ~IntRaises(case_name) /\ IntOf(case_name) = token.int
    ELSE Contains(token.str, case_name)

\* a match that needs every token to match
MatchedAllTokens(tokens, case_name, i) ==
    \A k \in i..Len(tokens) : TokenMatches(tokens[k], case_name)

RECURSIVE MatchedFrom(_, _, _)
\* the loop of lines 143-156 from token i on: matched
MatchedFrom(tokens, case_name, i) ==
    IF i > Len(tokens) THEN FALSE
    ELSE IF TokenMatches(tokens[i], case_name) THEN TRUE
    ELSE MatchedFrom(tokens, case_name, i + 1)

RECURSIVE RaisesFrom(_, _, _)
\* the loop of lines 144-156 from token i on raises: a token's test raises
\* before any token has matched
RaisesFrom(tokens, case_name, i) ==
    IF i > Len(tokens) THEN FALSE
    ELSE IF TokenRaises(tokens[i], case_name) THEN TRUE
    ELSE IF TokenMatches(tokens[i], case_name) THEN FALSE
    ELSE RaisesFrom(tokens, case_name, i + 1)

\* _filter_test_cases(cases, cases_to_run) raises ValueError
FilterRaises(cases, cases_to_run) ==
    /\ ~(cases_to_run = <<>> \/ cases_to_run[1] = <<>>)
    /\ \E i \in 1..Len(cases) : RaisesFrom(cases_to_run[1], cases[i].name, 1)

RECURSIVE FilterFrom(_, _, _, _)
\* the loop of lines 141-159 from case i on: filtered_cases
FilterFrom(cases, tokens, i, filtered_cases) ==
    IF i > Len(cases) THEN filtered_cases
    ELSE FilterFrom(cases, tokens, i + 1,
             IF MatchedFrom(tokens, cases[i].name, 1)
             THEN Append(filtered_cases, cases[i])
             ELSE filtered_cases)

\* not cases_to_run: None or an empty list
Falsy(cases_to_run) == cases_to_run = <<>> \/ cases_to_run[1] = <<>>

\* _filter_test_cases(cases, cases_to_run), lines 137-161
FilterTestCases(cases, cases_to_run) ==
    IF Falsy(cases_to_run) THEN cases
    ELSE FilterFrom(cases, cases_to_run[1], 1, <<>>)

----------------------------------------------------------------------------
(* Files, texts and messages.                                              *)

RECURSIVE TranslateNewlines(_)
\* Universal newlines, as text=True (line 192) and read_text (lines 246,
\* 281) read: "\r\n" and "\r" become "\n".
TranslateNewlines(raw) ==
    IF raw = <<>> THEN <<>>
    ELSE IF raw[1] = "\r"
         THEN IF Len(raw) >= 2 /\ raw[2] = "\n"
              THEN <<"\n">> \o TranslateNewlines(SubSeq(raw, 3, Len(raw)))
              ELSE <<"\n">> \o TranslateNewlines(Tail(raw))
         ELSE <<raw[1]>> \o TranslateNewlines(Tail(raw))

\* pathlib.Path.read_text of a file with the given content
ReadText(raw) == TranslateNewlines(raw)

\* The character U+00E9, which UTF-8 encodes and ASCII does not.
NonAscii == "U+00E9"

\* What locale.getpreferredencoding(False) may be; Popen(text=True) without
\* an encoding argument (line 192) gives its pipes that encoding.
Encodings == {"utf-8", "ascii"}

\* str.encode(enc) of the text raises nothing
Encodable(text, enc) == enc = "utf-8" \/ \A i \in 1..Len(text) : text[i] # NonAscii

\* What the files of a case hold: the .in file the case's name, the
\* character U+00E9 and a CRLF line end, the .out file the same with a LF
\* line end.
InputFile(name) == name \o <<NonAscii, "\r", "\n">>
ExpectedFile(name) == name \o <<NonAscii, "\n">>

\* A message (error_message, the diagnostic) is a list of report lines; the
\* empty list is the empty string.  A plain text is one line of kind "text".
Msg(text) ==
    IF text = <<>> THEN <<>>
    ELSE <<[kind |-> "text", line |-> 0, got |-> text, expect |-> <<>>, count |-> 0]>>

\* line 513: the note that '<case_name>.out' was not found
MissingMsg(case_name) ==
    Msg(<<"no matching ">> \o case_name \o <<".", "o", "u", "t">> \o <<" file">>)

\* str(e) of the exception Popen raised, line 234
SpawnErrorText == <<"[Errno 2] No such file or directory">>

\* str(e) of the UnicodeEncodeError communicate raised, line 234
EncodeErrorText == <<"'ascii' codec can't encode character">>

----------------------------------------------------------------------------
(* The run: run_tests (lines 451-528) with _handle_child_process,          *)
(* _execute_case_with_repeat and _run_single_process in it, one action per *)
(* step.                                                                   *)

MaxRepeat == 2      \* largest repeat argument
DefaultMaxDiffs == 10  \* the default of line 52
time_limit == 3000  \* the default of line 49, in ms

\* the value of OJ_CHILD_PROCESS in a child's environment, line 174
MarkerValue == "1"

\* a child environment that is os.environ as it is
ChildEnvInherited(env) == env

\* lines 171-174: the child's OJ_CHILD_PROCESS, set in a copy of os.environ
ChildEnv(env) == <<MarkerValue>>

\* What a candidate process does, given the text on its standard input:
\* the seconds it runs for, the status it exits with (if it is left to), and
\* what it writes to its standard output and standard error before that.
Echo(input) == input
Padded(input) ==
    IF input = <<>> THEN <<" ">>
    ELSE SubSeq(input, 1, Len(input) - 1) \o <<" ", "\r", "\n">>
Wrong(input) == <<"w", "\n">>
ErrText == <<"T", "r", "a", "c", "e", "\n">>

CandidateBehaviours(input) ==
    {[runtime |-> t, rc |-> 0, out |-> Echo(input), err |-> <<>>] : t \in 1..2}
    \cup
    {[runtime |-> 1, rc |-> 0, out |-> o, err |-> <<>>] :
        o \in {Padded(input), Wrong(input)}}
    \cup
    {[runtime |-> 1, rc |-> 0, out |-> Echo(input), err |-> ErrText]}
    \cup
    {[runtime |-> 1, rc |-> 1, out |-> <<>>, err |-> ErrText],
     [runtime |-> 2, rc |-> 1, out |-> Echo(input), err |-> ErrText],
     [runtime |-> 1, rc |-> 1, out |-> Echo(input), err |-> <<>>]}
    \cup
    {[runtime |-> 4, rc |-> 0, out |-> Echo(input), err |-> <<>>],
     [runtime |-> 4, rc |-> 1, out |-> <<>>, err |-> ErrText]}

\* the candidate is still running when communicate's timeout (line 199,
\* time_limit / 1000 seconds) expires
TimesOut(c) == c.runtime * 1000 >= time_limit

NamePool == {<<"0", "1">>, <<"2">>, <<"a">>}

Dirs ==
    {[exists |-> FALSE, ins |-> {}, outs |-> {}]}
    \cup
    {[exists |-> TRUE, ins |-> i, outs |-> o] : i \in SUBSET NamePool, o \in SUBSET NamePool}

TokenLists ==
    {<<>>, <<<<>>>>, <<<<IntToken(1)>>>>, <<<<StrToken(<<"a">>), IntToken(2)>>>>}

Configs ==
    [compare_output : BOOLEAN, strict_comparison : BOOLEAN, repeat : 1..MaxRepeat,
     max_diffs : {<<DefaultMaxDiffs>>}, cases_to_run : TokenLists]

RepIdle ==
    [input_content |-> <<>>, i |-> 0, execution_times |-> <<>>,
     final_status |-> "", final_output |-> <<>>, final_error |-> <<>>]

\* the run's variables before run_tests is entered, but for the inputs
RunStart ==
    /\ pc = "guard"
    /\ all_cases = <<>> /\ target_cases = <<>> /\ idx = 0
    /\ rep = RepIdle /\ cand = <<>> /\ procs = <<>> /\ duration = 0
    /\ run_ret = <<>> /\ results = <<>> /\ printed = <<>>
    /\ exc = <<>> /\ exit_code = <<>> /\ sol_runs = <<>> /\ attempt_log = <<>>

\* no run: the comparator is called on its own
RunIdle ==
    /\ RunStart
    /\ environ = <<>>
    /\ encoding = "utf-8"
    /\ cfg = [compare_output |-> TRUE, strict_comparison |-> FALSE, repeat |-> 1,
              max_diffs |-> <<DefaultMaxDiffs>>, cases_to_run |-> <<>>]
    /\ dir = [exists |-> FALSE, ins |-> {}, outs |-> {}]

Init ==
    /\ RunStart
    /\ environ \in {<<>>, <<MarkerValue>>}
    /\ encoding \in Encodings
    /\ cfg \in Configs
    /\ dir \in {d \in Dirs : d.outs \subseteq d.ins}
    /\ cmp_args = <<>> /\ cmp_ret = <<>>

\* What a call of sol_func does: it returns, it raises an Exception, or it
\* raises SystemExit with a code (the solution calls sys.exit).
SolOutcomes ==
    {[kind |-> "returns", code |-> 0], [kind |-> "raises", code |-> 0],
     [kind |-> "exits", code |-> 0], [kind |-> "exits", code |-> 2]}

\* a guard that takes no process for a child
IsChildNever(env) == FALSE

\* line 360: this process is a spawned candidate
IsChild(env) == env = <<MarkerValue>>

\* Lines 363-400: the status the process ends with.  sys.exit(0) after a
\* return, sys.exit(1) in the handler of an Exception; SystemExit is no
\* Exception and leaves run_tests with its own code.
ExitStatus(outcome) ==
    CASE outcome.kind = "returns" -> 0
      [] outcome.kind = "raises" -> 1
      [] outcome.kind = "exits" -> outcome.code

\* _handle_child_process, lines 350-400, called at line 474: without the
\* marker it returns; with it sol_func is called and the process ends.
HandleChildProcess ==
    /\ pc = "guard"
    /\ IF ~IsChild(environ)
       THEN pc' = "collect" /\ UNCHANGED <<exit_code, sol_runs, encoding>>
       ELSE \E outcome \in SolOutcomes :
                /\ sol_runs' = Append(sol_runs, outcome)
                /\ exit_code' = <<ExitStatus(outcome)>>
                /\ pc' = "exited"
    /\ UNCHANGED <<environ, cfg, dir, all_cases, target_cases, idx, rep, cand, procs,
                   duration, run_ret, results, printed, exc, encoding, attempt_log,
                   cmp_vars>>

\* the cases of lines 93-99 in the order glob yields them
Globbed(order) ==
    [i \in 1..Len(order) |-> [name |-> order[i], has_out |-> order[i] \in dir.outs]]

\* a test that leaves the filter out
NoCasesWhateverFilter(cases, cases_to_run) == cases = <<>>

\* line 478: not all_cases and not cases_to_run
NoCases(cases, cases_to_run) == cases = <<>> /\ Falsy(cases_to_run)

\* Lines 477-479: _collect_test_cases (lines 88-118), then the no-cases
\* error.  A TypeError of the sort leaves run_tests as it is raised.
Collect ==
    /\ pc = "collect"
    /\ \E order \in GlobOrders(IF dir.exists THEN dir.ins ELSE {}) :
          LET cases == Globbed(order)
          IN  IF dir.exists /\ SortRaises(cases)
              THEN pc' = "raised" /\ exc' = <<"TypeError">> /\ UNCHANGED all_cases
              ELSE LET sorted == IF dir.exists THEN StableSort(cases) ELSE <<>>
                   IN  IF NoCases(sorted, cfg.cases_to_run)
                       THEN /\ pc' = "raised" /\ exc' = <<"FileNotFoundError">>
                            /\ UNCHANGED all_cases
                       ELSE /\ pc' = "filter" /\ all_cases' = sorted
                            /\ UNCHANGED exc
    /\ UNCHANGED <<environ, cfg, dir, target_cases, idx, rep, cand, procs, duration,
                   run_ret, results, printed, exit_code, sol_runs, encoding, attempt_log, cmp_vars>>

\* a loop that ends after its first case
LoopHeadOneCase(i, cases) == IF i <= 1 /\ i <= Len(cases) THEN "begin_case" ELSE "returned"

\* the head of the loop of line 494
LoopHead(i, cases) == IF i <= Len(cases) THEN "begin_case" ELSE "returned"

\* Lines 481-493: _filter_test_cases, the early return of an empty list when
\* a filter matched nothing, and the entry of the loop.  A ValueError of the
\* filter leaves run_tests as it is raised.
Filter ==
    /\ pc = "filter"
    /\ IF FilterRaises(all_cases, cfg.cases_to_run)
       THEN /\ pc' = "raised" /\ exc' = <<"ValueError">>
            /\ UNCHANGED <<target_cases, idx>>
       ELSE LET filtered == FilterTestCases(all_cases, cfg.cases_to_run)
            IN  /\ target_cases' = filtered
                /\ IF ~Falsy(cfg.cases_to_run) /\ filtered = <<>>
                   THEN pc' = "returned" /\ UNCHANGED idx
                   ELSE pc' = LoopHead(1, filtered) /\ idx' = 1
                /\ UNCHANGED exc
    /\ UNCHANGED <<environ, cfg, dir, all_cases, rep, cand, procs, duration, run_ret,
                   results, printed, exit_code, sol_runs, encoding, attempt_log, cmp_vars>>

\* Lines 495-498 and 245-255: the input is read and the repeat loop entered.
BeginCase ==
    /\ pc = "begin_case"
    /\ rep' = [RepIdle EXCEPT
                 !.input_content = ReadText(InputFile(target_cases[idx].name))]
    /\ attempt_log' = <<>>
    /\ cand' = <<>>
    /\ run_ret' = <<>>
    /\ pc' = IF 0 < cfg.repeat THEN "popen" ELSE "finish_case"
    /\ UNCHANGED <<environ, cfg, dir, all_cases, target_cases, idx, procs,
                   duration, results, printed, exc, exit_code, sol_runs, encoding, cmp_vars>>

\* the tuple _run_single_process returns
RunResult(status, output, dur, error) ==
    [status |-> status, output |-> output, duration |-> dur, error |-> error]

\* a handler that returns RE without the description of the failure
HandlerResultNoText(text) == RunResult(STATUS_RE, <<>>, 0, <<>>)

\* line 234: what the handler of line 232 returns for an exception whose
\* str() is text
HandlerResult(text) == RunResult(STATUS_RE, <<>>, 0, Msg(text))

\* Lines 171-194 and 232-234: the child is spawned with the marker in its
\* environment (a copy of os.environ), or Popen raises and RE is returned.
Popen ==
    /\ pc = "popen"
    /\ \/ /\ run_ret' = <<HandlerResult(SpawnErrorText)>>
          /\ pc' = "attempt_done"
          /\ cand' = <<>>
          /\ UNCHANGED procs
       \/ \E c \in CandidateBehaviours(rep.input_content) :
             /\ cand' = <<c>>
             /\ procs' = Append(procs, [state |-> "running", marker |-> ChildEnv(environ)])
             /\ pc' = "communicate"
             /\ run_ret' = <<>>
    /\ UNCHANGED <<environ, cfg, dir, all_cases, target_cases, idx, rep, duration,
                   results, printed, exc, exit_code, sol_runs, encoding, attempt_log, cmp_vars>>

\* the child process in hand, the last one spawned, put into a state
SetChild(state) == [procs EXCEPT ![Len(procs)].state = state]

\* a result that does not look at the return code
ExitResultIgnoringCode(returncode, stdout, stderr, dur) ==
    RunResult(STATUS_AC, stdout, dur, <<>>)

\* lines 204-208: the result of a child that exited before the timeout
ExitResult(returncode, stdout, stderr, dur) ==
    IF returncode # 0
    THEN RunResult(STATUS_RE, stdout, dur, Msg(stderr))
    ELSE RunResult(STATUS_AC, stdout, dur, <<>>)

\* Lines 198-200 and 232-234: communicate cannot encode the input for the
\* child's pipe and raises UnicodeEncodeError before it has written or waited;
\* the handler of line 232 returns RE.  The child is neither killed nor
\* waited for.
CommunicateRaises ==
    /\ pc = "communicate"
    /\ ~Encodable(rep.input_content, encoding)
    /\ run_ret' = <<HandlerResult(EncodeErrorText)>>
    /\ pc' = "attempt_done"
    /\ UNCHANGED <<environ, cfg, dir, all_cases, target_cases, idx, rep, cand, procs,
                   duration, results, printed, exc, exit_code, sol_runs, encoding,
                   attempt_log, cmp_vars>>

\* Lines 198-208: the child exits before the timeout; communicate returns
\* its output and has waited for it.
CommunicateReturns ==
    /\ pc = "communicate"
    /\ Encodable(rep.input_content, encoding)
    /\ ~TimesOut(cand[1])
    /\ procs' = SetChild("reaped")
    /\ run_ret' = <<ExitResult(cand[1].rc, TranslateNewlines(cand[1].out),
                               TranslateNewlines(cand[1].err), cand[1].runtime * 1000)>>
    /\ pc' = "attempt_done"
    /\ UNCHANGED <<environ, cfg, dir, all_cases, target_cases, idx, rep, cand, duration,
                   results, printed, exc, exit_code, sol_runs, encoding, attempt_log, cmp_vars>>

\* Lines 198-200 and 210-215: the timeout expires first; the duration is
\* taken and the child killed.  It is dead and not yet waited for.
CommunicateTimesOut ==
    /\ pc = "communicate"
    /\ Encodable(rep.input_content, encoding)
    /\ TimesOut(cand[1])
    /\ duration' = time_limit
    /\ procs' = SetChild("killed")
    /\ pc' = "drain"
    /\ UNCHANGED <<environ, cfg, dir, all_cases, target_cases, idx, rep, cand, run_ret,
                   results, printed, exc, exit_code, sol_runs, encoding, attempt_log, cmp_vars>>

\* a timed-out run judged by the status the child would exit with
TimeoutResultByExitCode(returncode, stdout, dur) ==
    IF returncode # 0
    THEN RunResult(STATUS_RE, stdout, dur, <<>>)
    ELSE RunResult(STATUS_AC, stdout, dur, <<>>)

\* line 230: what a timed-out run returns
TimeoutResult(returncode, stdout, dur) ==
    RunResult(STATUS_TLE, stdout, dur, <<>>)

\* Lines 216-230: the second communicate returns what the child had written
\* and has waited for it, or it raises within its 0.2 s and the output is
\* what the first communicate had read (e.stdout, bytes or None), decoded.
Drain ==
    /\ pc = "drain"
    /\ \/ /\ procs' = SetChild("reaped")
          /\ run_ret' = <<TimeoutResult(cand[1].rc, TranslateNewlines(cand[1].out),
                                        duration)>>
       \/ \E read \in {<<>>, cand[1].out} :
             /\ run_ret' = <<TimeoutResult(cand[1].rc, read, duration)>>
             /\ UNCHANGED procs
    /\ duration' = 0
    /\ pc' = "attempt_done"
    /\ UNCHANGED <<environ, cfg, dir, all_cases, target_cases, idx, rep, cand,
                   results, printed, exc, exit_code, sol_runs, encoding, attempt_log, cmp_vars>>

\* a loop without the break of line 267, and one that ends an attempt early
GoesOnRegardless(status, i, repeat) == i < repeat
GoesOnOffByOne(status, i, repeat) == status = STATUS_AC /\ i < repeat - 1

\* lines 266-267 and the loop of line 255: whether the repeat loop goes on
\* after attempt number i (1-based) ended with status
GoesOn(status, i, repeat) == status = STATUS_AC /\ i < repeat

\* Lines 256-267: the attempt's result is recorded and the loop goes on or
\* ends.
AttemptDone ==
    /\ pc = "attempt_done"
    /\ rep' = [rep EXCEPT
                 !.i = rep.i + 1,
                 !.execution_times = Append(rep.execution_times, run_ret[1].duration),
                 !.final_status = run_ret[1].status,
                 !.final_output = run_ret[1].output,
                 !.final_error = run_ret[1].error]
    /\ attempt_log' = Append(attempt_log, [status |-> run_ret[1].status,
                                            duration |-> run_ret[1].duration])
    /\ pc' = IF GoesOn(run_ret[1].status, rep.i + 1, cfg.repeat)
             THEN "popen" ELSE "finish_case"
    /\ UNCHANGED <<environ, cfg, dir, all_cases, target_cases, idx, cand, procs,
                   duration, run_ret, results, printed, exc, exit_code, sol_runs, encoding, cmp_vars>>

\* a judgement without the else branch of lines 511-513
JudgeNoMissing(case, status, output, error_msg) ==
    IF status = STATUS_AC /\ cfg.compare_output /\ case.has_out
    THEN LET cmp == CompareOutput(output, ReadText(ExpectedFile(case.name)),
                                  cfg.strict_comparison, cfg.max_diffs)
         IN  [status |-> cmp.status,
              error_message |-> IF cmp.status # STATUS_AC THEN cmp.msg ELSE error_msg]
    ELSE [status |-> status, error_message |-> error_msg]

\* a judgement that compares whatever the run's status was
JudgeWhateverStatus(case, status, output, error_msg) ==
    IF cfg.compare_output
    THEN IF case.has_out
         THEN LET cmp == CompareOutput(output, ReadText(ExpectedFile(case.name)),
                                       cfg.strict_comparison, cfg.max_diffs)
              IN  [status |-> cmp.status,
                   error_message |-> IF cmp.status # STATUS_AC THEN cmp.msg
                                                               ELSE error_msg]
         ELSE [status |-> STATUS_MISSING, error_message |-> MissingMsg(case.name)]
    ELSE [status |-> status, error_message |-> error_msg]

\* lines 502-513: the status and message of a case after the run returned
\* status, output and error_msg
Judge(case, status, output, error_msg) ==
    IF status = STATUS_AC /\ cfg.compare_output
    THEN IF case.has_out
         THEN LET cmp == CompareOutput(output, ReadText(ExpectedFile(case.name)),
                                       cfg.strict_comparison, cfg.max_diffs)
              IN  [status |-> cmp.status,
                   error_message |-> IF cmp.status # STATUS_AC THEN cmp.msg
                                                               ELSE error_msg]
         ELSE [status |-> STATUS_MISSING, error_message |-> MissingMsg(case.name)]
    ELSE [status |-> status, error_message |-> error_msg]

\* Lines 269 and 498-526: the repeat loop has returned; the case is judged,
\* its result appended and shown, and the loop of line 494 goes on.
FinishCase ==
    /\ pc = "finish_case"
    /\ LET case == target_cases[idx]
           judged == Judge(case, rep.final_status, rep.final_output, rep.final_error)
       IN  results' = Append(results,
               [case_name |-> case.name,
                status |-> judged.status,
                execution_times |-> rep.execution_times,
                output |-> rep.final_output,
                error_message |-> judged.error_message])
    /\ printed' = Append(printed, target_cases[idx].name)
    /\ idx' = idx + 1
    /\ pc' = LoopHead(idx + 1, target_cases)
    /\ UNCHANGED <<environ, cfg, dir, all_cases, target_cases, rep, cand, procs,
                   duration, run_ret, exc, exit_code, sol_runs, encoding, attempt_log, cmp_vars>>

Next ==
    \/ HandleChildProcess
    \/ Collect
    \/ Filter
    \/ BeginCase
    \/ Popen
    \/ CommunicateRaises
    \/ CommunicateReturns
    \/ CommunicateTimesOut
    \/ Drain
    \/ AttemptDone
    \/ FinishCase

Spec == Init /\ [][Next]_vars

----------------------------------------------------------------------------
(* The case store on its own: the discovery and filtering steps of         *)
(* run_tests over a wider range of directories and token lists.            *)

MaxFiles == 3    \* .in files in the directory
MaxTokens == 2   \* tokens in cases_to_run

FilterNames ==
    {<<"0", "1">>, <<"1">>, <<"2">>, <<"1", "a", "b", "c">>, <<"a">>, <<"a", "b">>,
     <<Superscript2>>}

FilterTokens ==
    {IntToken(1), IntToken(2), StrToken(<<"a">>), StrToken(<<"1">>), StrToken(<<>>)}

FilterTokenLists == {<<>>} \cup {<<ts>> : ts \in SeqsUpTo(FilterTokens, MaxTokens)}

InitFilter ==
    /\ pc = "collect"
    /\ environ = <<>>
    /\ encoding = "utf-8"
    /\ \E ts \in FilterTokenLists :
          cfg = [compare_output |-> TRUE, strict_comparison |-> FALSE, repeat |-> 1,
                 max_diffs |-> <<DefaultMaxDiffs>>, cases_to_run |-> ts]
    /\ \E i \in SUBSET FilterNames :
          /\ Cardinality(i) <= MaxFiles
          /\ dir = [exists |-> TRUE, ins |-> i, outs |-> {}]
    /\ all_cases = <<>> /\ target_cases = <<>> /\ idx = 0
    /\ rep = RepIdle /\ cand = <<>> /\ procs = <<>> /\ duration = 0
    /\ run_ret = <<>> /\ results = <<>> /\ printed = <<>>
    /\ exc = <<>> /\ exit_code = <<>> /\ sol_runs = <<>> /\ attempt_log = <<>>
    /\ cmp_args = <<>> /\ cmp_ret = <<>>

NextFilter == Collect \/ Filter

SpecFilter == InitFilter /\ [][NextFilter]_vars

----------------------------------------------------------------------------
(* The comparator on its own: Init draws the arguments of one              *)
(* _compare_output call, Compare applies the function.                     *)

MaxLines == 3       \* lines per text of the whitespace family
MaxDiffLines == 5   \* lines per text of the diff family
MaxCap == 2         \* largest max_diffs of the diff family

\* lines with trailing blanks, blank lines and plain lines
WhitespaceLines == {<<"a">>, <<"a", " ">>, <<>>}
\* plain lines only
DiffLines == {<<"x">>, <<"y">>}

WhitespaceFamily ==
    {[actual |-> a, expected |-> e, strict |-> s, max_diffs |-> <<DefaultMaxDiffs>>] :
        a \in TextsOf(WhitespaceLines, MaxLines),
        e \in TextsOf(WhitespaceLines, MaxLines),
        s \in BOOLEAN}

Caps == {<<>>} \cup {<<c>> : c \in 0..MaxCap}

DiffFamily ==
    {[actual |-> Join(a), expected |-> Join(e), strict |-> FALSE, max_diffs |-> c] :
        a \in SeqsUpTo(DiffLines, MaxDiffLines),
        e \in SeqsUpTo(DiffLines, MaxDiffLines),
        c \in Caps}

\* the pairs the specification's section 8 names, and an actual output with
\* a line that reads <EOF>
ExampleFamily ==
    {[actual |-> Join(<<<<"x">>, <<"q">>>>),
      expected |-> Join(<<<<"x">>, <<"y">>, <<"z">>>>),
      strict |-> s, max_diffs |-> c] : s \in BOOLEAN, c \in Caps \cup {<<DefaultMaxDiffs>>}}
    \cup
    {[actual |-> Join(<<<<"a", " ">>, <<>>, <<"b">>>>),
      expected |-> Join(<<<<"a">>, <<"b">>>>),
      strict |-> s, max_diffs |-> c] : s \in BOOLEAN, c \in Caps \cup {<<DefaultMaxDiffs>>}}
    \cup
    {[actual |-> Join(<<<<"x">>, EOFMark>>),
      expected |-> Join(<<<<"x">>>>),
      strict |-> s, max_diffs |-> c] : s \in BOOLEAN, c \in Caps \cup {<<DefaultMaxDiffs>>}}

CompareInputs == WhitespaceFamily \cup DiffFamily \cup ExampleFamily

InitCompare ==
    /\ \E a \in CompareInputs : cmp_args = <<a>>
    /\ cmp_ret = <<>>
    /\ RunIdle

Compare ==
    /\ cmp_args # <<>>
    /\ cmp_ret = <<>>
    /\ cmp_ret' = <<CompareOutput(cmp_args[1].actual, cmp_args[1].expected,
                                  cmp_args[1].strict, cmp_args[1].max_diffs)>>
    /\ UNCHANGED cmp_args
    /\ UNCHANGED run_vars

NextCompare == Compare

SpecCompare == InitCompare /\ [][NextCompare]_vars

----------------------------------------------------------------------------
(* Properties of the comparator.                                           *)

Returned == cmp_ret # <<>>
Arg == cmp_args[1]
Ret == cmp_ret[1]

\* A line is blank when nothing but whitespace is in it.
IsBlank(line) == \A i \in 1..Len(line) : line[i] \in Whitespace

\* The lines of a text that are not blank, each without its surrounding
\* whitespace.
NormalisedLines(text) ==
    LET kept == SelectSeq(SplitLines(text), LAMBDA l : ~IsBlank(l))
    IN  [i \in 1..Len(kept) |-> Strip(kept[i])]

\* the pair of the specification's section 8: "a \n\nb" against "a\nb"
PaddedActual == Join(<<<<"a", " ">>, <<>>, <<"b">>>>)
PlainExpected == Join(<<<<"a">>, <<"b">>>>)

C7_StrictIsExact ==
    (Returned /\ Arg.strict) =>
        /\ (Ret.status = STATUS_AC) <=>
               (SplitLines(Arg.actual) = SplitLines(Arg.expected))
        /\ Ret.status \in {STATUS_AC, STATUS_WA}
        /\ (/\ SplitLines(Arg.actual) # SplitLines(Arg.expected)
            /\ NormalisedLines(Arg.actual) = NormalisedLines(Arg.expected))
               => /\ Ret.status = STATUS_WA
                  /\ CompareOutput(Arg.actual, Arg.expected, FALSE,
                                   Arg.max_diffs).status = STATUS_AC

C7_Witness ==
    /\ Returned /\ Arg.strict
    /\ Arg.actual = PaddedActual /\ Arg.expected = PlainExpected
    /\ Ret.status = STATUS_WA

\* the line sequences the report is made from
ActLines == IF Arg.strict THEN SplitLines(Arg.actual) ELSE NormalisedLines(Arg.actual)
ExpLines == IF Arg.strict THEN SplitLines(Arg.expected) ELSE NormalisedLines(Arg.expected)

\* what position n (1-based) of actual is compared against
ExpectedAt(n) == IF n <= Len(ExpLines) THEN ExpLines[n] ELSE EOFMark

\* the positions of actual that are counted as mismatches, in a set
Mismatches == {n \in 1..Len(ActLines) : ActLines[n] # ExpectedAt(n)}

KindAt(k) == Ret.msg[k].kind
EntriesOfKind(kind) == {k \in 1..Len(Ret.msg) : KindAt(k) = kind}

\* the n smallest elements of a set of numbers
Smallest(S, n) == {x \in S : Cardinality({y \in S : y < x}) < n}

\* how many per-line entries the cap lets through
Rendered ==
    IF Arg.max_diffs = <<>> \/ Cardinality(Mismatches) <= Arg.max_diffs[1]
    THEN Cardinality(Mismatches) ELSE Arg.max_diffs[1]

\* C8: when actual is shorter than expected, the report holds the (rendered)
\* mismatch entries of positions before actual's end, in order, then exactly
\* one insufficient-lines note, and after the note nothing but the cap's
\* summary; no per-line entry is for a position past actual's end.
C8_InsufficientNoteEndsReport ==
    (Returned /\ Ret.status = STATUS_WA) =>
        LET act == ActLines
            exp == ExpLines
            msg == Ret.msg
            mism == Mismatches
            notes == EntriesOfKind("insufficient")
            diffs == EntriesOfKind("diff")
        IN  Len(act) < Len(exp) =>
            /\ Cardinality(notes) = 1
            /\ \A k \in diffs :
                   /\ \A j \in notes : k < j
                   /\ msg[k].line \in mism
                   /\ msg[k].got = act[msg[k].line]
                   /\ msg[k].expect = exp[msg[k].line]
                   /\ \A j \in diffs : j < k => msg[j].line < msg[k].line
            /\ {msg[k].line : k \in diffs} = Smallest(mism, Rendered)
            /\ notes = {Cardinality(diffs) + 1}
            /\ \A k \in 1..Len(msg) :
                   (\E j \in notes : k > j) =>
                       (msg[k].kind = "more" /\ k = Len(msg))
            /\ (/\ Arg.actual = Join(<<<<"x">>, <<"q">>>>)
                /\ Arg.expected = Join(<<<<"x">>, <<"y">>, <<"z">>>>)
                /\ Arg.max_diffs = <<DefaultMaxDiffs>>)
                   => msg = <<DiffEntry(2, <<"q">>, <<"y">>), InsufficientNote>>

C8_Witness ==
    /\ Returned /\ Ret.status = STATUS_WA
    /\ Arg.actual = Join(<<<<"x">>, <<"q">>>>)
    /\ Arg.expected = Join(<<<<"x">>, <<"y">>, <<"z">>>>)
    /\ Arg.max_diffs = <<DefaultMaxDiffs>>
    /\ Len(Ret.msg) = 2 /\ KindAt(1) = "diff" /\ KindAt(2) = "insufficient"

\* C9: with cap c and m counted mismatches the report renders min(m, c)
\* per-line entries and ends with a summary exactly when m > c, which states
\* m - c; with no cap all m entries are rendered and there is no summary.
C9_CapBoundsEntries ==
    (Returned /\ Ret.status = STATUS_WA) =>
        LET m == Cardinality(Mismatches)
            diffs == EntriesOfKind("diff")
            more == EntriesOfKind("more")
        IN  IF Arg.max_diffs = <<>>
            THEN Cardinality(diffs) = m /\ more = {}
            ELSE LET c == Arg.max_diffs[1]
                 IN  /\ Cardinality(diffs) = IF m <= c THEN m ELSE c
                     /\ (more # {}) <=> (m > c)
                     /\ more # {} => /\ more = {Len(Ret.msg)}
                                     /\ Ret.msg[Len(Ret.msg)].count = m - c

C9_Witness ==
    /\ Returned /\ Ret.status = STATUS_WA
    /\ Arg.max_diffs = <<0>>
    /\ Cardinality(Mismatches) = 5
    /\ Ret.msg = <<MoreNote(5)>>

C9_WitnessNoCap ==
    /\ Returned /\ Ret.status = STATUS_WA
    /\ Arg.max_diffs = <<>>
    /\ Cardinality(Mismatches) = 5
    /\ Cardinality(EntriesOfKind("diff")) = 5

----------------------------------------------------------------------------
(* Properties of the case store.                                           *)

\* _filter_test_cases has returned
Filtered == pc \in {"begin_case", "popen", "communicate", "drain", "attempt_done",
                    "finish_case", "returned"}

\* C10: filter returns exactly the cases that at least one token matches, in
\* their original order and each once; with no token list, or an empty one,
\* it returns the input unchanged.
C10_FilterIsOrderedOr ==
    Filtered =>
        /\ Falsy(cfg.cases_to_run) => target_cases = all_cases
        /\ ~Falsy(cfg.cases_to_run) =>
               LET tokens == cfg.cases_to_run[1]
               IN  target_cases =
                       SelectSeq(all_cases,
                           LAMBDA c : \E k \in 1..Len(tokens) :
                                          TokenMatches(tokens[k], c.name))
        /\ \A i, j \in 1..Len(target_cases) :
               i # j => target_cases[i].name # target_cases[j].name

C10_Witness ==
    /\ Filtered
    /\ ~Falsy(cfg.cases_to_run) /\ Len(cfg.cases_to_run[1]) = 2
    /\ Len(all_cases) = 3 /\ Len(target_cases) = 2
    /\ \E c \in 1..2 : /\ TokenMatches(cfg.cases_to_run[1][1], target_cases[c].name)
                       /\ ~TokenMatches(cfg.cases_to_run[1][2], target_cases[c].name)
    /\ \E c \in 1..2 : /\ TokenMatches(cfg.cases_to_run[1][2], target_cases[c].name)
                       /\ ~TokenMatches(cfg.cases_to_run[1][1], target_cases[c].name)

\* _filter_test_cases has been called, and has returned or raised
FilterActed == Filtered \/ (pc = "raised" /\ exc = <<"ValueError">>)

\* the token list holds one token
OneToken == ~Falsy(cfg.cases_to_run) /\ Len(cfg.cases_to_run[1]) = 1

\* a name of decimal digits only
DecimalOnly(name) == name # <<>> /\ \A i \in 1..Len(name) : IsDecimalChar(name[i])

\* the rule of one token and one name: an integer token takes the names of
\* digits only whose value it is, a string token the names it is part of
RuleMatches(token, name) ==
    IF token.is_int
    THEN DecimalOnly(name) /\ IntOf(name) = token.int
    ELSE Contains(token.str, name)

\* C11: an integer token matches a case exactly when its name is digits only
\* and has the token's value, never by substring, and a string token exactly
\* when it is a substring of the name: filtering by one token returns, and
\* returns the cases the rule takes.
C11_TokenMatchRule ==
    (FilterActed /\ OneToken) =>
        /\ exc = <<>>
        /\ target_cases =
               SelectSeq(all_cases, LAMBDA c : RuleMatches(cfg.cases_to_run[1][1], c.name))

\* the rule does hold of every call that returns
C11_RuleWhereReturned ==
    (Filtered /\ OneToken) =>
        target_cases =
            SelectSeq(all_cases, LAMBDA c : RuleMatches(cfg.cases_to_run[1][1], c.name))

\* token 1 takes the name 01 and leaves the name 1abc
C11_ExampleReached ==
    /\ Filtered /\ OneToken /\ cfg.cases_to_run[1][1] = IntToken(1)
    /\ \E i \in 1..Len(all_cases) : all_cases[i].name = <<"0", "1">>
    /\ \E i \in 1..Len(all_cases) : all_cases[i].name = <<"1", "a", "b", "c">>
    /\ Len(target_cases) = 1 /\ target_cases[1].name = <<"0", "1">>

----------------------------------------------------------------------------
(* Properties of the process runner, the repeat controller and run_tests.  *)

\* _run_single_process has returned from an attempt that spawned a child
\* and wrote the input to it
RunnerReturned ==
    run_ret # <<>> /\ cand # <<>> /\ Encodable(rep.input_content, encoding)

\* a case has been finished and the next one not begun: rep, cand and
\* run_ret are those of the case of the last result
CaseFinished == pc \in {"begin_case", "returned"} /\ results # <<>>
LastResult == results[Len(results)]
LastCase == target_cases[Len(results)]

\* C1: a run whose candidate is still running when the time limit expires
\* returns TLE with an empty diagnostic, whatever status the candidate would
\* have exited with; nothing of that status is in what is returned.
C1_TimeoutIsTLE ==
    (RunnerReturned /\ TimesOut(cand[1])) =>
        /\ run_ret[1].status = STATUS_TLE
        /\ run_ret[1].status \notin {STATUS_AC, STATUS_RE}
        /\ run_ret[1].error = <<>>
        /\ \E out \in {<<>>, cand[1].out, TranslateNewlines(cand[1].out)} :
               run_ret[1] = RunResult(STATUS_TLE, out, time_limit, <<>>)

C1_Witness ==
    /\ RunnerReturned /\ TimesOut(cand[1]) /\ cand[1].rc = 0
    /\ run_ret[1].status = STATUS_TLE

C1_WitnessNonzero ==
    /\ RunnerReturned /\ TimesOut(cand[1]) /\ cand[1].rc # 0
    /\ run_ret[1].status = STATUS_TLE

\* C2: a run whose candidate exits with a nonzero status before the time
\* limit returns RE with the captured standard error as diagnostic and the
\* captured standard output as output, and run_tests reports the case as RE
\* with that diagnostic.
C2_NonzeroExitIsRE ==
    (RunnerReturned /\ ~TimesOut(cand[1]) /\ cand[1].rc # 0) =>
        /\ run_ret[1].status = STATUS_RE
        /\ run_ret[1].error = Msg(TranslateNewlines(cand[1].err))
        /\ run_ret[1].output = TranslateNewlines(cand[1].out)
        /\ CaseFinished =>
               /\ LastResult.status = STATUS_RE
               /\ LastResult.error_message = Msg(TranslateNewlines(cand[1].err))

C2_Witness ==
    /\ CaseFinished /\ RunnerReturned /\ ~TimesOut(cand[1]) /\ cand[1].rc # 0
    /\ cand[1].err = ErrText /\ cand[1].out # <<>>
    /\ LastResult.status = STATUS_RE
    /\ LastResult.error_message = Msg(ErrText)

\* C3: a case without an expected-output file whose run returned AC ends as
\* MISSING with a diagnostic naming '<case name>.out' when comparison is on,
\* and as AC with the process output when it is off.
C3_MissingExpected ==
    (CaseFinished /\ ~LastCase.has_out /\ rep.final_status = STATUS_AC) =>
        IF cfg.compare_output
        THEN /\ LastResult.status = STATUS_MISSING
             /\ Len(LastResult.error_message) = 1
             /\ LastResult.error_message[1].kind = "text"
             /\ Contains(LastCase.name \o <<".", "o", "u", "t">>,
                         LastResult.error_message[1].got)
        ELSE /\ LastResult.status = STATUS_AC
             /\ LastResult.output = run_ret[1].output

C3_Witness ==
    /\ CaseFinished /\ ~LastCase.has_out /\ rep.final_status = STATUS_AC
    /\ cfg.compare_output
    /\ LastResult.status = STATUS_MISSING

C3_WitnessNoCompare ==
    /\ CaseFinished /\ ~LastCase.has_out /\ rep.final_status = STATUS_AC
    /\ ~cfg.compare_output
    /\ LastResult.status = STATUS_AC

\* C4: no attempt is started after one that did not end AC; the times list
\* holds the duration of every attempt made, in attempt order; what the
\* repeat controller returns has between 1 and repeat times, fewer than
\* repeat only with a status other than AC, and the status, output and
\* diagnostic of the last attempt.
C4_RepeatStopsAtFirstFailure ==
    /\ \A k \in 1..(Len(attempt_log) - 1) : attempt_log[k].status = STATUS_AC
    /\ pc \in {"popen", "communicate", "drain"} =>
           \A k \in 1..Len(attempt_log) : attempt_log[k].status = STATUS_AC
    /\ pc \in {"popen", "communicate", "drain", "attempt_done"} =>
           Len(attempt_log) < cfg.repeat
    /\ rep.execution_times = [k \in 1..Len(attempt_log) |-> attempt_log[k].duration]
    /\ pc = "finish_case" =>
           /\ Len(rep.execution_times) \in 1..cfg.repeat
           /\ Len(rep.execution_times) < cfg.repeat => rep.final_status # STATUS_AC
           /\ rep.final_status = run_ret[1].status
           /\ rep.final_status = attempt_log[Len(attempt_log)].status
           /\ rep.final_output = run_ret[1].output
           /\ rep.final_error = run_ret[1].error

C4_Witness ==
    /\ pc = "finish_case"
    /\ cfg.repeat = 2
    /\ Len(rep.execution_times) = 1
    /\ rep.final_status = STATUS_RE

\* the candidate of the latest attempt wrote its input to its output
\* unchanged and exited with status 0 in time
Echoed ==
    /\ cand # <<>> /\ Encodable(rep.input_content, encoding)
    /\ ~TimesOut(cand[1]) /\ cand[1].rc = 0
    /\ cand[1].out = rep.input_content

\* C5: when the repeat controller returns AC it has made exactly repeat
\* attempts and returns repeat times and the output and diagnostic of the
\* last one; a case whose candidate echoes its input and exits 0, run
\* without comparison, ends AC with the input as output.
C5_AllAcceptedRunsAll ==
    /\ (pc = "finish_case" /\ rep.final_status = STATUS_AC) =>
           /\ Len(attempt_log) = cfg.repeat
           /\ \A k \in 1..cfg.repeat : attempt_log[k].status = STATUS_AC
           /\ Len(rep.execution_times) = cfg.repeat
           /\ rep.final_output = run_ret[1].output
           /\ rep.final_error = run_ret[1].error
    /\ (CaseFinished /\ Echoed /\ ~cfg.compare_output) =>
           /\ LastResult.status = STATUS_AC
           /\ LastResult.output = rep.input_content
           /\ Len(LastResult.execution_times) = cfg.repeat

C5_Witness ==
    /\ CaseFinished /\ Echoed /\ ~cfg.compare_output
    /\ cfg.repeat = 2
    /\ LastResult.status = STATUS_AC
    /\ LastResult.execution_times = <<2000, 1000>>
    /\ LastResult.output = rep.input_content

\* the five verdicts, lines 40-44
Verdicts == {STATUS_AC, STATUS_WA, STATUS_TLE, STATUS_RE, STATUS_MISSING}

\* a case is in hand: the loop of line 494 is in its body
CaseInHand == pc \in {"begin_case", "popen", "communicate", "drain", "attempt_done",
                      "finish_case"}

\* C12: run_tests makes exactly one result per selected case, in selection
\* order, each with one of the five verdicts and a diagnostic, whatever the
\* outcomes of the cases before it; a result is shown as soon as it is made,
\* before the next case is begun; what is returned holds a result for every
\* selected case.
C12_OneResultPerCase ==
    /\ Len(results) <= Len(target_cases)
    /\ \A k \in 1..Len(results) :
           /\ results[k].case_name = target_cases[k].name
           /\ results[k].status \in Verdicts
           /\ "error_message" \in DOMAIN results[k]
    /\ printed = [k \in 1..Len(results) |-> results[k].case_name]
    /\ CaseInHand => (idx \in 1..Len(target_cases) /\ Len(results) = idx - 1)
    /\ pc = "returned" => Len(results) = Len(target_cases)

C12_Witness ==
    /\ pc = "returned"
    /\ Len(target_cases) = 2 /\ Len(results) = 2
    /\ results[1].status = STATUS_RE /\ results[1].error_message = Msg(SpawnErrorText)
    /\ results[2].status = STATUS_WA

C12_WitnessAfterTimeout ==
    /\ pc = "returned"
    /\ Len(results) = 2
    /\ results[1].status = STATUS_TLE
    /\ results[2].status = STATUS_MISSING

\* the marker is set in this process
MarkerSet == environ = <<MarkerValue>>

\* no step of the orchestration has been taken: nothing discovered, nothing
\* filtered, no process spawned, no result made
NoOrchestration ==
    /\ pc \in {"guard", "exited"}
    /\ all_cases = <<>> /\ target_cases = <<>> /\ idx = 0
    /\ procs = <<>> /\ results = <<>> /\ printed = <<>> /\ exc = <<>>

\* the routine succeeded: it returned, or left through sys.exit(0)
Succeeded(outcome) ==
    outcome.kind = "returns" \/ (outcome.kind = "exits" /\ outcome.code = 0)

\* C13: with the marker set run_tests takes no orchestration step; it calls
\* sol_func once and the process ends, with status 0 exactly when the routine
\* succeeded.  Without the marker the guard calls nothing, the process does
\* not end there, and the orchestration goes on.  Every process the runner
\* spawns has the marker, so no process spawned by the harness spawns.
C13_GuardHandsOver ==
    /\ MarkerSet =>
           /\ NoOrchestration
           /\ pc = "guard" => (sol_runs = <<>> /\ exit_code = <<>>)
           /\ pc = "exited" =>
                  /\ Len(sol_runs) = 1 /\ Len(exit_code) = 1
                  /\ (exit_code[1] = 0) <=> Succeeded(sol_runs[1])
    /\ ~MarkerSet =>
           /\ sol_runs = <<>> /\ exit_code = <<>>
           /\ pc # "exited"
    /\ \A k \in 1..Len(procs) : procs[k].marker = <<MarkerValue>>

C13_Witness ==
    /\ MarkerSet /\ pc = "exited"
    /\ sol_runs = <<[kind |-> "raises", code |-> 0]>>
    /\ exit_code = <<1>>

C13_WitnessSuccess ==
    /\ MarkerSet /\ pc = "exited"
    /\ sol_runs = <<[kind |-> "returns", code |-> 0]>>
    /\ exit_code = <<0>>

C13_WitnessUnset ==
    /\ ~MarkerSet /\ pc = "returned"
    /\ procs # <<>> /\ results # <<>>

\* discovery finds no case: the directory is missing or holds no .in file
NothingToDiscover == ~dir.exists \/ dir.ins = {}

\* a case filter was requested: a token list that is not empty
FilterRequested == cfg.cases_to_run # <<>> /\ cfg.cases_to_run[1] # <<>>

\* no token of the filter takes a name of the directory
NothingSelected ==
    \A name \in dir.ins :
        \A k \in 1..Len(cfg.cases_to_run[1]) :
            ~TokenMatches(cfg.cases_to_run[1][k], name)

\* discovery has returned and run_tests has gone past its no-cases test
PastDiscovery == pc \notin {"guard", "exited", "collect"} /\ exc # <<"TypeError">>

\* C14: the top-level run_tests raises the no-cases error exactly when
\* discovery finds no case and no filter was requested; with a filter that
\* takes no case, also when there is no case at all, it returns an empty
\* list, raises nothing and has spawned no process.
C14_NoCasesAndEmptySelection ==
    /\ PastDiscovery =>
           ((exc = <<"FileNotFoundError">>) <=> (NothingToDiscover /\ ~FilterRequested))
    /\ exc = <<"FileNotFoundError">> => (pc = "raised" /\ procs = <<>> /\ results = <<>>)
    /\ (PastDiscovery /\ pc # "filter" /\ FilterRequested /\ NothingSelected) =>
           /\ pc = "returned"
           /\ exc = <<>>
           /\ results = <<>>
           /\ procs = <<>>

C14_Witness ==
    /\ pc = "returned" /\ FilterRequested /\ NothingSelected
    /\ ~NothingToDiscover
    /\ results = <<>> /\ procs = <<>>

C14_WitnessNoCasesFiltered ==
    /\ pc = "returned" /\ FilterRequested /\ NothingToDiscover
    /\ results = <<>> /\ procs = <<>> /\ exc = <<>>

C14_WitnessRaised ==
    /\ pc = "raised" /\ exc = <<"FileNotFoundError">>
    /\ cfg.cases_to_run = <<<<>>>>

\* _collect_test_cases has been called
Discovered == pc \notin {"guard", "exited", "collect"}

\* the names of a list of cases
NamesOf(cases) == {cases[i].name : i \in 1..Len(cases)}

\* C15: for every set of case names, those that mix names with digits and
\* names without among them, discovery returns all the cases, in an order
\* that is the same whatever order the directory lists its files in and that
\* never puts a greater key before a smaller one.
C15_DiscoverOrdersAll ==
    (Discovered /\ dir.exists /\ exc # <<"FileNotFoundError">>) =>
        /\ exc # <<"TypeError">>
        /\ NamesOf(all_cases) = dir.ins
        /\ Len(all_cases) = Cardinality(dir.ins)
        /\ \A i, j \in 1..Len(all_cases) :
               i < j => ~KeyLess(sort_key(all_cases[j]), sort_key(all_cases[i]))
        /\ \A order \in GlobOrders(dir.ins) :
               all_cases = StableSort(Globbed(order))

\* where the keys are of one type and no two are equal, discovery does all that
C15_HoldsOnDistinctKeysOfOneType ==
    (/\ Discovered /\ dir.exists /\ exc # <<"FileNotFoundError">>
     /\ \A m, n \in dir.ins :
            /\ sort_key([name |-> m]).is_int = sort_key([name |-> n]).is_int
            /\ m # n => sort_key([name |-> m]) # sort_key([name |-> n]))
        => C15_DiscoverOrdersAll

\* C16: the report is empty exactly when the verdict is AC; every WA has a
\* report that is not empty, also where lines of actual past expected's end
\* are compared with the <EOF> placeholder.
C16_EmptyReportIffAC ==
    Returned => ((Ret.msg = <<>>) <=> (Ret.status = STATUS_AC))

\* it is so for every actual output without a line that reads <EOF>
C16_HoldsWithoutEOFLine ==
    (Returned /\ \A n \in 1..Len(ActLines) : ActLines[n] # EOFMark) =>
        ((Ret.msg = <<>>) <=> (Ret.status = STATUS_AC))

\* C17: a case whose run ended TLE or RE keeps that status and the run's own
\* diagnostic, with or without an expected-output file; WA and MISSING are
\* given only to a run that ended AC with comparison on; a run that ended AC
\* with comparison off stays AC; a final AC or TLE has an empty diagnostic.
C17_JudgedOnlyWhenAccepted ==
    CaseFinished =>
        /\ rep.final_status \in {STATUS_TLE, STATUS_RE} =>
               /\ LastResult.status = rep.final_status
               /\ LastResult.error_message = rep.final_error
        /\ LastResult.status \in {STATUS_WA, STATUS_MISSING} =>
               (rep.final_status = STATUS_AC /\ cfg.compare_output)
        /\ (rep.final_status = STATUS_AC /\ ~cfg.compare_output) =>
               LastResult.status = STATUS_AC
        /\ LastResult.status \in {STATUS_AC, STATUS_TLE} =>
               LastResult.error_message = <<>>

C17_Witness ==
    /\ CaseFinished /\ cfg.compare_output /\ LastCase.has_out
    /\ rep.final_status = STATUS_RE /\ rep.final_error = Msg(ErrText)
    /\ LastResult.status = STATUS_RE /\ LastResult.error_message = Msg(ErrText)

C17_WitnessTimeoutNoExpected ==
    /\ CaseFinished /\ cfg.compare_output /\ ~LastCase.has_out
    /\ rep.final_status = STATUS_TLE
    /\ LastResult.status = STATUS_TLE /\ LastResult.error_message = <<>>

C17_WitnessWrong ==
    /\ CaseFinished /\ LastResult.status = STATUS_WA /\ LastResult.error_message # <<>>

\* _run_single_process is not running: no call of it is between its Popen
\* and its return
RunnerIdle == pc \notin {"communicate", "drain"}

\* C18: every child the runner spawned has ended and been waited for once
\* the call that spawned it has returned, on every path: exit with status 0,
\* exit with another status, and timeout and kill, also when the drain
\* after the kill times out or fails.
C18_ReapedOnReturn ==
    RunnerIdle => \A k \in 1..Len(procs) : procs[k].state = "reaped"

\* the child of a run in which a communicate call returned is waited for
C18_ReapedWhereCommunicateReturns ==
    (RunnerReturned /\ run_ret[1].duration # time_limit) =>
        procs[Len(procs)].state = "reaped"

\* the children that are alive: spawned, and neither exited nor killed
Alive == {k \in 1..Len(procs) : procs[k].state = "running"}

\* C19: at most one child spawned by the harness is alive at any time,
\* whatever the outcomes, runner-level errors among them; when an attempt or
\* a case is begun every child spawned before has exited or been killed.
C19_OneCandidateAtATime ==
    /\ Cardinality(Alive) <= 1
    /\ pc \in {"begin_case", "popen"} => Alive = {}

\* two children alive at once
C19_TwoAlive ==
    /\ pc = "communicate" /\ idx = 2
    /\ Alive = {1, 2}

\* it is so in every run whose pipes can encode the input
C19_HoldsWhereInputEncodes ==
    encoding = "utf-8" =>
        /\ Cardinality(Alive) <= 1
        /\ Alive \subseteq {Len(procs)}
        /\ Alive # {} => pc = "communicate"

\* C20: every child the runner spawns has the marker in its environment,
\* with the one value the guard takes for set; spawning leaves os.environ of
\* the spawning process as it was: after any number of runs the marker is
\* still absent there, and that process has never taken the child branch of
\* the guard.
C20_MarkerOnlyInChildren ==
    /\ \A k \in 1..Len(procs) :
           /\ procs[k].marker # <<>>
           /\ IsChild(procs[k].marker)
    /\ procs # <<>> =>
           /\ environ = <<>>
           /\ ~IsChild(environ)
           /\ sol_runs = <<>> /\ exit_code = <<>>

C20_Witness ==
    /\ pc = "returned"
    /\ Len(procs) = 4
    /\ \A k \in 1..4 : procs[k].marker = <<MarkerValue>>
    /\ environ = <<>> /\ sol_runs = <<>>

\* the latest attempt of the case in hand ended in Popen: no child was started
SpawnFailed == run_ret # <<>> /\ cand = <<>>

\* the result was made from a failed spawn
OfFailedSpawn(result) == result.error_message = Msg(SpawnErrorText)

\* C21: when the candidate cannot be started the runner returns RE with the
\* description of the failure as diagnostic, no output and a time of 0, and
\* raises nothing; run_tests records the case as RE with that diagnostic and
\* goes on with the cases that remain.
C21_SpawnFailureIsRE ==
    /\ SpawnFailed =>
           /\ run_ret[1].status = STATUS_RE
           /\ run_ret[1].error = Msg(SpawnErrorText)
           /\ run_ret[1].output = <<>>
           /\ run_ret[1].duration = 0
           /\ exc = <<>>
           /\ pc \in {"attempt_done", "finish_case", "begin_case", "returned"}
           /\ CaseFinished =>
                  /\ OfFailedSpawn(LastResult)
                  /\ LastResult.execution_times[Len(LastResult.execution_times)] = 0
                  /\ pc = "returned" <=> Len(results) = Len(target_cases)
    /\ \A k \in 1..Len(results) :
           OfFailedSpawn(results[k]) =>
               /\ results[k].status = STATUS_RE
               /\ results[k].output = <<>>
    /\ pc = "returned" => Len(results) = Len(target_cases)

C21_Witness ==
    /\ pc = "returned"
    /\ Len(results) = 2
    /\ OfFailedSpawn(results[1]) /\ results[1].status = STATUS_RE
    /\ results[1].execution_times = <<0>> /\ results[1].output = <<>>
    /\ results[2].status = STATUS_AC
    /\ exc = <<>>

C21_WitnessAfterAccepted ==
    /\ pc = "finish_case" /\ SpawnFailed
    /\ rep.execution_times = <<1000, 0>>
    /\ rep.final_status = STATUS_RE /\ rep.final_error = Msg(SpawnErrorText)

====
